---- MODULE Spec2Model ----
(***************************************************************************)
(* Model of the xtcjs page conversion pipeline:                            *)
(*   - ConvertWorkerPool        (src/src/lib/conversion/worker-pool.ts)    *)
(*   - processArchiveSourcePages, convertPdfToXtc, finalizeConversionResult*)
(*                              (src/src/lib/converter.ts)                 *)
(* The JavaScript event loop is modelled explicitly: an event handler      *)
(* (worker message, worker error, blob read, image load) is a macrotask    *)
(* and only runs when the microtask queue is empty; the continuation of an *)
(* `await` is a microtask and runs to the next `await` atomically.         *)
(***************************************************************************)
EXTENDS Integers, Sequences, FiniteSets, TLC

\* ---------------------------------------------------------------- bounds
MaxPages == 3
MaxPool == 2
MaxJobs == 3
MaxErrors == 1
MaxDestroy == 2

\* ------------------------------------------------------------- constants
NoJob == 0

\* no batch of files is being converted
NoBatch == [pc |-> "none"]

MainTask == -1      \* continuation of `await Promise.all(...)` in processArchiveSourcePages
FinalizeTask == -2  \* continuation of `await processArchiveSourcePages(...)` in convertCbzToXtc / convertCbrToXtc
PdfTask == -3       \* continuation of `await page.render(...).promise` in convertPdfToXtc

VARIABLES
  input,        \* the file being converted: fileType, totalPages, page kinds, options, worker support
  poolObj,      \* the ConvertWorkerPool instance (slots, queue, nextJobId, isDestroyed) and its workers
  microtasks,   \* FIFO of pending await continuations
  lastOp,       \* the handler or call that made the last step, with its inputs
  errorEvents,  \* number of worker error events so far
  destroyCalls, \* number of destroy() calls made so far
  mainPc,       \* position of the converting function
  pool,         \* processArchiveSourcePages' `pool` variable: "pool" or "null"
  workerDisabled,
  completed,
  nextIndex,
  pageResultsByIndex,  \* sparse array: its DOMAIN is the set of assigned indices
  runSlot,      \* per runSlot(slotIndex) coroutine: pc, index, job
  encodedPages,
  mappingCtx,   \* the addOriginalPage(page, count) calls made, in order
  xtcPages,     \* the page sequence handed to buildXtcFromXtgPages
  pdfPage,      \* loop variable i of convertPdfToXtc
  hist,         \* history: claims, writes, processing starts, fallback snapshot
  call,         \* the last call of one of the pure functions: its arguments and what it returned
  sampledPreviews,  \* the page numbers of the previews retained by the conversion, in push order
  batch         \* the batch of selected files being converted and the results collected so far

vars == <<input, poolObj, microtasks, lastOp, errorEvents, destroyCalls, mainPc, pool,
          workerDisabled, completed, nextIndex, pageResultsByIndex, runSlot,
          encodedPages, mappingCtx, xtcPages, pdfPage, hist, call, sampledPreviews, batch>>

convVars == <<mainPc, pool, workerDisabled, completed, nextIndex, pageResultsByIndex,
              runSlot, encodedPages, mappingCtx, xtcPages, pdfPage, hist>>

\* ===================================================== ConvertWorkerPool

\* constructor(poolSize): poolSize idle slots, one worker each.
NewPool(poolSize) ==
  [ slots       |-> [l \in 0..(poolSize - 1) |-> [busy |-> FALSE, currentJob |-> NoJob]],
    queue       |-> <<>>,
    nextJobId   |-> 1,
    isDestroyed |-> FALSE,
    jobPage     |-> <<>>,   \* job id -> pageNum of the QueueJob
    status      |-> <<>>,   \* job id -> state of the job's promise
    settles     |-> <<>>,   \* job id -> number of resolve/reject calls made on it
    posted      |-> [l \in 0..(poolSize - 1) |-> {}],  \* job ids posted to worker l and not answered
    terminated  |-> [l \in 0..(poolSize - 1) |-> 0] ]  \* number of terminate() calls on worker l

PoolSize(p) == Cardinality(DOMAIN p.slots)

\* job.resolve(...) / job.reject(...): the first call decides the promise.
Settle(p, j, how) ==
  [p EXCEPT !.status[j] = IF @ = "pending" THEN how ELSE @,
            !.settles[j] = @ + 1]

\* Operators are written in closed form, not by recursion on the loop index.

IdleSlots(p) == {l \in DOMAIN p.slots : ~p.slots[l].busy}

\* pump() that pops the newest job: `const job = this.queue.pop()`
PumpLifo(p) ==
  IF p.isDestroyed THEN p
  ELSE LET idle == IdleSlots(p)
           rank(l) == Cardinality({m \in idle : m < l}) + 1
           takes(l) == l \in idle /\ rank(l) <= Len(p.queue)
           n == IF Cardinality(idle) < Len(p.queue) THEN Cardinality(idle) ELSE Len(p.queue)
       IN [p EXCEPT
             !.slots = [l \in DOMAIN p.slots |->
                          IF takes(l) THEN [busy |-> TRUE, currentJob |-> p.queue[Len(p.queue) + 1 - rank(l)]]
                          ELSE p.slots[l]],
             !.posted = [l \in DOMAIN p.slots |->
                          IF takes(l) THEN p.posted[l] \cup {p.queue[Len(p.queue) + 1 - rank(l)]}
                          ELSE p.posted[l]],
             !.queue = SubSeq(p.queue, 1, Len(p.queue) - n)]

\* pump() that assigns the jobs without taking them off the queue
PumpKeepsQueue(p) ==
  IF p.isDestroyed THEN p
  ELSE LET idle == IdleSlots(p)
           rank(l) == Cardinality({m \in idle : m < l}) + 1
           takes(l) == l \in idle /\ rank(l) <= Len(p.queue)
       IN [p EXCEPT
             !.slots = [l \in DOMAIN p.slots |->
                          IF takes(l) THEN [busy |-> TRUE, currentJob |-> p.queue[rank(l)]]
                          ELSE p.slots[l]],
             !.posted = [l \in DOMAIN p.slots |->
                          IF takes(l) THEN p.posted[l] \cup {p.queue[rank(l)]} ELSE p.posted[l]]]

\* private pump(): the slots are visited in index order; each slot that is not busy shifts
\* the next job off the queue, until the queue is empty. So the k-th idle slot takes the
\* k-th queued job.
Pump(p) ==
  IF p.isDestroyed THEN p
  ELSE LET idle == IdleSlots(p)
           rank(l) == Cardinality({m \in idle : m < l}) + 1
           takes(l) == l \in idle /\ rank(l) <= Len(p.queue)
           n == IF Cardinality(idle) < Len(p.queue) THEN Cardinality(idle) ELSE Len(p.queue)
       IN [p EXCEPT
             !.slots = [l \in DOMAIN p.slots |->
                          IF takes(l) THEN [busy |-> TRUE, currentJob |-> p.queue[rank(l)]]
                          ELSE p.slots[l]],
             !.posted = [l \in DOMAIN p.slots |->
                          IF takes(l) THEN p.posted[l] \cup {p.queue[rank(l)]} ELSE p.posted[l]],
             !.queue = SubSeq(p.queue, n + 1, Len(p.queue))]

\* processPage(pageNum, ...): TRUE iff the call returns Promise.reject
ProcessPageRejects(p) == p.isDestroyed

\* processPage without the isDestroyed test of line 88
ProcessPageUnguarded(p, pageNum) ==
  Pump([p EXCEPT !.nextJobId = @ + 1,
                 !.jobPage = Append(@, pageNum),
                 !.status = Append(@, "pending"),
                 !.settles = Append(@, 0),
                 !.queue = Append(@, p.nextJobId)])

ProcessPage(p, pageNum) ==
  IF p.isDestroyed THEN p
  ELSE Pump([p EXCEPT !.nextJobId = @ + 1,
                      !.jobPage = Append(@, pageNum),
                      !.status = Append(@, "pending"),
                      !.settles = Append(@, 0),
                      !.queue = Append(@, p.nextJobId)])

\* the current jobs of the slots, in slot order
CurrentJobs(p) ==
  LET occ == {l \in DOMAIN p.slots : p.slots[l].currentJob # NoJob}
  IN [k \in 1..Cardinality(occ) |->
        p.slots[CHOOSE l \in occ : Cardinality({m \in occ : m < l}) = k - 1].currentJob]

\* the jobs destroy() rejects, in the order it rejects them (lines 111-122)
DestroyRejects(p) == IF p.isDestroyed THEN <<>> ELSE CurrentJobs(p) \o p.queue

\* job.reject(...) on each job of the set
RejectJobs(p, jobs) ==
  [p EXCEPT !.status = [j \in DOMAIN p.status |->
                          IF j \in jobs /\ p.status[j] = "pending" THEN "rejected" ELSE p.status[j]],
            !.settles = [j \in DOMAIN p.settles |->
                          IF j \in jobs THEN p.settles[j] + 1 ELSE p.settles[j]]]

\* lines 111-117 without the rejections: every slot loses its job, every worker is terminated
TerminateSlots(p) ==
  [p EXCEPT !.slots = [l \in DOMAIN p.slots |-> [p.slots[l] EXCEPT !.currentJob = NoJob]],
            !.terminated = [l \in DOMAIN p.slots |-> p.terminated[l] + 1],
            !.posted = [l \in DOMAIN p.slots |-> {}]]

\* destroy() that forgets the queued jobs
DestroySlotsOnly(p) ==
  IF p.isDestroyed THEN p
  ELSE [RejectJobs(TerminateSlots(p), {CurrentJobs(p)[k] : k \in DOMAIN CurrentJobs(p)})
          EXCEPT !.isDestroyed = TRUE]

\* destroy() without the early return of line 108
DestroyUnguarded(p) ==
  [RejectJobs(TerminateSlots(p), {(CurrentJobs(p) \o p.queue)[k] : k \in DOMAIN (CurrentJobs(p) \o p.queue)})
     EXCEPT !.isDestroyed = TRUE, !.queue = <<>>]

\* destroy()
Destroy(p) ==
  IF p.isDestroyed THEN p
  ELSE [RejectJobs(TerminateSlots(p), {DestroyRejects(p)[k] : k \in DOMAIN DestroyRejects(p)})
          EXCEPT !.isDestroyed = TRUE, !.queue = <<>>]

\* worker.onmessage that does not compare job.id with message.jobId
OnMessageNoIdCheck(p, l, jobId, isError) ==
  LET job == p.slots[l].currentJob
  IN IF job = NoJob THEN p
     ELSE Pump(Settle([p EXCEPT !.slots[l] = [busy |-> FALSE, currentJob |-> NoJob]],
                      job, IF isError THEN "rejected" ELSE "resolved"))

\* worker.onmessage for the worker of slot l, message {jobId, pages | error}
OnMessage(p, l, jobId, isError) ==
  LET job == p.slots[l].currentJob
  IN IF job = NoJob \/ job # jobId THEN p
     ELSE Pump(Settle([p EXCEPT !.slots[l] = [busy |-> FALSE, currentJob |-> NoJob]],
                      job, IF isError THEN "rejected" ELSE "resolved"))

\* worker.onerror without the final this.pump()
OnErrorNoPump(p, l) ==
  LET job == p.slots[l].currentJob
      p1 == [p EXCEPT !.slots[l] = [busy |-> FALSE, currentJob |-> NoJob]]
  IN IF job # NoJob THEN Settle(p1, job, "rejected") ELSE p1

\* worker.onerror without `slot.currentJob = undefined`
OnErrorKeepsJob(p, l) ==
  LET job == p.slots[l].currentJob
      p1 == [p EXCEPT !.slots[l].busy = FALSE]
  IN IF job # NoJob THEN Settle(p1, job, "rejected") ELSE p1

\* worker.onerror for the worker of slot l
OnError(p, l) ==
  LET job == p.slots[l].currentJob
      p1 == [p EXCEPT !.slots[l] = [busy |-> FALSE, currentJob |-> NoJob]]
  IN Pump(IF job # NoJob THEN Settle(p1, job, "rejected") ELSE p1)

\* ============================================================ page names

\* Collation ranks of the characters of an output name under localeCompare:
\* punctuation sorts before digits, digits before letters.
ChUnderscore == 0
ChDot == 1
ChDigit(d) == 2 + d
ChLetter(k) == 12 + k      \* k = 0 for "a", 1 for "b", ...

RECURSIVE Digits(_)
\* String(n) for n >= 0
Digits(n) == IF n < 10 THEN <<ChDigit(n)>> ELSE Append(Digits(n \div 10), ChDigit(n % 10))

RECURSIVE PadStart(_, _)
\* str.padStart(len, '0')
PadStart(str, len) == IF Len(str) >= len THEN str ELSE PadStart(<<ChDigit(0)>> \o str, len)

TailPage == <<ChLetter(15), ChLetter(0), ChLetter(6), ChLetter(4)>>                        \* "page"
TailSpread == <<ChLetter(18), ChLetter(15), ChLetter(17), ChLetter(4), ChLetter(0), ChLetter(3)>>  \* "spread"
ExtPng == <<ChDot, ChLetter(15), ChLetter(13), ChLetter(6)>>                               \* ".png"

\* `${String(pageNum).padStart(4, '0')}_${kind}_${tail}.png`
PageName(pageNum, kind, tail) ==
  PadStart(Digits(pageNum), 4) \o <<ChUnderscore, ChDigit(kind), ChUnderscore>> \o tail \o ExtPng

\* a.localeCompare(b): negative, zero or positive; decided by the first position where the
\* two names differ, a proper prefix sorting first.
LocaleCompare(a, b) ==
  LET n == IF Len(a) < Len(b) THEN Len(a) ELSE Len(b)
      diff == {k \in 1..n : a[k] # b[k]}
  IN IF diff = {}
     THEN (IF Len(a) < Len(b) THEN -1 ELSE IF Len(a) > Len(b) THEN 1 ELSE 0)
     ELSE LET k == CHOOSE d \in diff : \A m \in diff : d <= m
          IN IF a[k] < b[k] THEN -1 ELSE 1

\* the comparator with its arguments swapped: (a, b) => b.name.localeCompare(a.name)
CompareNamesSwapped(a, b) == LocaleCompare(b, a)

\* the comparator of line 194: (a, b) => a.name.localeCompare(b.name)
CompareNames(a, b) == LocaleCompare(a, b)

\* encodedPages.sort(comparator): Array.prototype.sort is stable, so the element at
\* position i moves behind every element that compares smaller and behind every equal
\* element that stood before it.
SortByName(pages) ==
  LET before(j, i) == \/ CompareNames(pages[j], pages[i]) < 0
                      \/ (CompareNames(pages[j], pages[i]) = 0 /\ j < i)
      rank(i) == Cardinality({j \in DOMAIN pages : j # i /\ before(j, i)})
  IN [k \in DOMAIN pages |-> pages[CHOOSE i \in DOMAIN pages : rank(i) = k - 1]]

\* Number of bands of an overlap split.
OverlapSegments == 3

\* getPageProcessingOptions(baseOptions, isCoverPage).splitMode
PageSplitMode(splitMode, isCoverPage) ==
  IF ~isCoverPage \/ splitMode = "nosplit" THEN splitMode ELSE "nosplit"

\* a page function that never splits: every landscape page is a spread
ProcessedNamesNoSplit(pageNum, orientation, splitMode, tall) ==
  IF orientation = "portrait" THEN <<PageName(pageNum, 0, TailPage)>>
  ELSE <<PageName(pageNum, 0, TailSpread)>>

\* Names of the pages processLoadedImage / processCanvasAsImage / processBitmap
\* produce for a decoded image; tall is (cropped width < cropped height).
ProcessedNames(pageNum, orientation, splitMode, tall) ==
  IF orientation = "portrait" THEN <<PageName(pageNum, 0, TailPage)>>
  ELSE IF tall /\ splitMode # "nosplit"
       THEN IF splitMode = "overlap"
            THEN [idx \in 1..OverlapSegments |-> PageName(pageNum, 3, <<ChLetter(idx - 1)>>)]
            ELSE <<PageName(pageNum, 2, <<ChLetter(0)>>), PageName(pageNum, 2, <<ChLetter(1)>>)>>
       ELSE <<PageName(pageNum, 0, TailSpread)>>

\* processImage that resolves with the pages of a blank image when the image fails to load
ProcessImageBlank(pageNum, orientation, splitMode, kind) ==
  ProcessedNames(pageNum, orientation, splitMode, kind = "tall")

\* processImage(imgBlob, pageNum, options): [] when the image fails to load
ProcessImage(pageNum, orientation, splitMode, kind) ==
  IF kind = "bad" THEN <<>>
  ELSE ProcessedNames(pageNum, orientation, splitMode, kind = "tall")

\* =============================================================== inputs

FileTypes == {"cbz", "cbr", "pdf"}
PageKinds == {"bad", "wide", "tall"}      \* undecodable image, width >= height, width < height
OptionSets == { [orientation |-> "landscape", splitMode |-> "split"],
                [orientation |-> "landscape", splitMode |-> "overlap"] }

\* A PDF page is rendered to a canvas, it cannot fail to decode.
\* the cover pages extractPdfMetadata can resolve for a PDF of n pages: BookMetadata holds
\* coverPage / coverImagePath for every kind of source
PdfCoverPages(n) == 0..n

\* kind[k] is the image of original page k + 1; coverPage is the page the metadata resolves
\* as the cover (metadata.coverPage, or the page a coverImagePath matches), 0 when it
\* resolves none.
Inputs ==
  { i \in UNION { [fileType : FileTypes, totalPages : {n}, kind : [0..(n - 1) -> PageKinds],
                   options : OptionSets, workers : 0..MaxPool, coverPage : 0..n] : n \in 1..MaxPages } :
      i.fileType = "pdf" => /\ i.workers = 0
                            /\ \A k \in DOMAIN i.kind : i.kind[k] # "bad"
                            /\ i.coverPage \in PdfCoverPages(i.totalPages) }

\* moveCoverToFront(imageFiles, metadata): the original pages in processing order.
\* imageFiles holds the original pages 1..n in order; coverIndex is coverPage - 1, or -1.
MoveCoverToFront(n, coverPage) ==
  IF n < 2 THEN [k \in 1..n |-> k]
  ELSE LET coverIndex == coverPage - 1
       IN IF coverIndex > 0
          THEN [k \in 1..n |-> IF k = 1 THEN coverPage ELSE IF k <= coverPage THEN k - 1 ELSE k]
          ELSE [k \in 1..n |-> k]

\* imageFiles[i].originalPage after moveCoverToFront (CBZ, CBR); the PDF loop has no
\* reordering, its page of index i is page i + 1
OriginalPage(i) ==
  IF input.fileType = "pdf" THEN i + 1
  ELSE MoveCoverToFront(input.totalPages, input.coverPage)[i + 1]

\* the image at processing index i
KindAt(i) == input.kind[OriginalPage(i) - 1]

\* the page number taken from the source position: `const pageNum = getOriginalPage(index)`
PageNumOriginal(index) == OriginalPage(index)

\* `const pageNum = index + 1` (line 246)
PageNum(index) == index + 1

\* pages a worker returns for the job of processing index i (processBitmap)
WorkerPages(i) ==
  ProcessedNames(PageNum(i), input.options.orientation,
                 PageSplitMode(input.options.splitMode, i = 0),
                 KindAt(i) = "tall")

\* pages processImage returns in-process for processing index i
InProcessPages(i) ==
  ProcessImage(PageNum(i), input.options.orientation,
               PageSplitMode(input.options.splitMode, i = 0), KindAt(i))

\* pages processCanvasAsImage returns for PDF page i (1-based)
PdfPages(i) ==
  ProcessedNames(i, input.options.orientation, input.options.splitMode, KindAt(i - 1) = "tall")

\* ====================================================== worker events

\* the runSlot coroutines suspended on the promises of the given jobs, in settlement order
AwaitersOf(jobs) ==
  LET awaiters(j) == {s \in DOMAIN runSlot : runSlot[s].pc = "awaitJob" /\ runSlot[s].job = j}
      awaited(j) == awaiters(j) # {}
      js == SelectSeq(jobs, awaited)
  IN [k \in DOMAIN js |-> CHOOSE s \in awaiters(js[k]) : TRUE]

\* The worker of slot l answers job j: {jobId, pages} or {jobId, error}.
WorkerMessage(l, j, isError) ==
  /\ microtasks = <<>>
  /\ j \in poolObj.posted[l]
  /\ ~isError => KindAt(poolObj.jobPage[j] - 1) # "bad"
  /\ poolObj' = OnMessage([poolObj EXCEPT !.posted[l] = @ \ {j}], l, j, isError)
  /\ microtasks' = IF poolObj.slots[l].currentJob = j THEN AwaitersOf(<<j>>) ELSE <<>>
  /\ lastOp' = [op |-> "message", slot |-> l, jobId |-> j, current |-> poolObj.slots[l].currentJob]
  /\ UNCHANGED <<call, sampledPreviews, batch, input, errorEvents, destroyCalls, convVars>>

\* The worker of slot l raises an error event.
WorkerError(l) ==
  /\ microtasks = <<>>
  /\ errorEvents < MaxErrors
  /\ poolObj.terminated[l] = 0
  /\ poolObj' = OnError(poolObj, l)
  /\ microtasks' = AwaitersOf(IF poolObj.slots[l].currentJob # NoJob
                              THEN <<poolObj.slots[l].currentJob>> ELSE <<>>)
  /\ errorEvents' = errorEvents + 1
  /\ lastOp' = [op |-> "error", slot |-> l]
  /\ UNCHANGED <<call, sampledPreviews, batch, input, destroyCalls, convVars>>

\* The worker of slot l answers job j and will answer it once more: a duplicate message.
WorkerMessageRepeated(l, j, isError) ==
  /\ microtasks = <<>>
  /\ j \in poolObj.posted[l]
  /\ poolObj' = OnMessage(poolObj, l, j, isError)
  /\ microtasks' = IF poolObj.slots[l].currentJob = j THEN AwaitersOf(<<j>>) ELSE <<>>
  /\ lastOp' = [op |-> "message", slot |-> l, jobId |-> j, current |-> poolObj.slots[l].currentJob]
  /\ UNCHANGED <<call, sampledPreviews, batch, input, errorEvents, destroyCalls, convVars>>

\* ================================================= the pool under any client

\* The client calls processPage; the pool never reads pageNum (it only stores it in the
\* job and posts it to the worker), so the client numbers its pages in call order.
ClientProcessPage(pageNum) ==
  /\ mainPc = "client"
  /\ pageNum = ((poolObj.nextJobId - 1) % MaxPages) + 1
  /\ poolObj.nextJobId <= MaxJobs
  /\ poolObj' = ProcessPage(poolObj, pageNum)
  /\ lastOp' = [op |-> "processPage", rejected |-> ProcessPageRejects(poolObj)]
  /\ UNCHANGED <<call, sampledPreviews, batch, input, microtasks, errorEvents, destroyCalls, convVars>>

ClientDestroy ==
  /\ mainPc = "client"
  /\ destroyCalls < MaxDestroy
  /\ poolObj' = Destroy(poolObj)
  /\ destroyCalls' = destroyCalls + 1
  /\ lastOp' = [op |-> "destroy", inFlight |-> CurrentJobs(poolObj), queued |-> poolObj.queue,
                 wasDestroyed |-> poolObj.isDestroyed]
  /\ UNCHANGED <<call, sampledPreviews, batch, input, microtasks, errorEvents, convVars>>

EmptyHist ==
  [ claims |-> <<>>, writes |-> <<>>, workerStarts |-> <<>>, inProcStarts |-> <<>>,
    processed |-> {}, mapLog |-> <<>>, fallbackInFlight |-> {}, fallbackDone |-> {},
    outOfOrder |-> FALSE, pdfResults |-> <<>> ]

PoolInit ==
  /\ input \in { i \in Inputs : i.fileType = "cbz" /\ i.totalPages = MaxPages /\ i.workers > 0
                               /\ i.coverPage = 0
                               /\ i.options.splitMode = "split"
                               /\ \A k \in DOMAIN i.kind : i.kind[k] = "tall" }
  /\ call = [fn |-> "none"]
  /\ sampledPreviews = <<>>
  /\ batch = NoBatch
  /\ poolObj = NewPool(input.workers)
  /\ microtasks = <<>>
  /\ lastOp = [op |-> "new"]
  /\ errorEvents = 0
  /\ destroyCalls = 0
  /\ mainPc = "client"
  /\ pool = "pool"
  /\ workerDisabled = FALSE
  /\ completed = 0
  /\ nextIndex = 0
  /\ pageResultsByIndex = <<>>
  /\ runSlot = <<>>
  /\ encodedPages = <<>>
  /\ mappingCtx = <<>>
  /\ xtcPages = <<>>
  /\ pdfPage = 0
  /\ hist = EmptyHist

PoolNext ==
  \/ \E n \in 1..MaxPages : ClientProcessPage(n)
  \/ ClientDestroy
  \/ \E l \in DOMAIN poolObj.slots : \E j \in poolObj.posted[l] : \E e \in BOOLEAN : WorkerMessage(l, j, e)
  \/ \E l \in DOMAIN poolObj.slots : \E j \in poolObj.posted[l] : \E e \in BOOLEAN :
       WorkerMessageRepeated(l, j, e)
  \/ \E l \in DOMAIN poolObj.slots : WorkerError(l)

PoolSpec == PoolInit /\ [][PoolNext]_vars

\* ====================================== processArchiveSourcePages (CBZ, CBR)

Concurrency == IF input.workers > 0 THEN input.workers ELSE 1

Init ==
  /\ input \in Inputs
  /\ call = [fn |-> "none"]
  /\ sampledPreviews = <<>>
  /\ batch = NoBatch
  /\ poolObj = NewPool(0)
  /\ microtasks = <<>>
  /\ lastOp = [op |-> "new"]
  /\ errorEvents = 0
  /\ destroyCalls = 0
  /\ mainPc = "start"
  /\ pool = "null"
  /\ workerDisabled = FALSE
  /\ completed = 0
  /\ nextIndex = 0
  /\ pageResultsByIndex = <<>>
  /\ runSlot = <<>>
  /\ encodedPages = <<>>
  /\ mappingCtx = <<>>
  /\ xtcPages = <<>>
  /\ pdfPage = 0
  /\ hist = [EmptyHist EXCEPT !.claims = [i \in 0..(input.totalPages - 1) |-> 0],
                              !.writes = [i \in 0..(input.totalPages - 1) |-> 0],
                              !.workerStarts = [i \in 0..(input.totalPages - 1) |-> 0],
                              !.inProcStarts = [i \in 0..(input.totalPages - 1) |-> 0]]

\* Creates the pool and calls runSlot(0), ..., runSlot(concurrency - 1); each call runs
\* synchronously to its first await, in this order (the order of the microtask queue).
Start ==
  /\ mainPc = "start"
  /\ input.fileType # "pdf"
  /\ poolObj' = NewPool(input.workers)
  /\ pool' = IF input.workers > 0 THEN "pool" ELSE "null"
  /\ runSlot' = [s \in 0..(Concurrency - 1) |-> [pc |-> "loop", index |-> -1, job |-> NoJob]]
  /\ microtasks' = [k \in 1..Concurrency |-> k - 1]
  /\ mainPc' = "awaitAll"
  /\ lastOp' = [op |-> "start"]
  /\ UNCHANGED <<call, sampledPreviews, batch, input, errorEvents, destroyCalls, workerDisabled, completed, nextIndex,
                 pageResultsByIndex, encodedPages, mappingCtx, xtcPages, pdfPage, hist>>

\* `const index = nextIndex` without the increment
NextIndexNoIncrement(n) == n

\* nextIndex after `const index = nextIndex++`
NextIndexAfterClaim(n) == n + 1

\* Loop head whose early return does not spare slot 0: `if (workerDisabled) return`
LoopHeadAllReturn(s, disabled, n) ==
  IF disabled THEN [pc |-> "done", index |-> -1, next |-> n]
  ELSE IF n >= input.totalPages THEN [pc |-> "done", index |-> -1, next |-> n + 1]
  ELSE [pc |-> "awaitBlob", index |-> n, next |-> n + 1]

\* Loop head of runSlot: return, or claim the next index and call getBlob(index).
LoopHead(s, disabled, n) ==
  IF disabled /\ s > 0 THEN [pc |-> "done", index |-> -1, next |-> n]
  ELSE IF n >= input.totalPages THEN [pc |-> "done", index |-> -1, next |-> NextIndexAfterClaim(n)]
  ELSE [pc |-> "awaitBlob", index |-> n, next |-> NextIndexAfterClaim(n)]

\* results stored in completion order: pageResultsByIndex[completed] = pageResults
StoreResultByCompletion(arr, index, done, pageResults) ==
  [k \in (DOMAIN arr) \cup {done} |-> IF k = done THEN pageResults ELSE arr[k]]

\* pageResultsByIndex[index] = pageResults
StoreResult(arr, index, done, pageResults) ==
  [k \in (DOMAIN arr) \cup {index} |-> IF k = index THEN pageResults ELSE arr[k]]

\* runSlot(s) at the loop head; h0 is the history up to here.
EnterLoop(s, h0) ==
  LET h == LoopHead(s, workerDisabled, nextIndex)
      join == /\ mainPc = "awaitAll"
              /\ h.pc = "done"
              /\ \A t \in (DOMAIN runSlot) \ {s} : runSlot[t].pc = "done"
  IN /\ runSlot' = [runSlot EXCEPT ![s] = [pc |-> h.pc, index |-> h.index, job |-> NoJob]]
     /\ nextIndex' = h.next
     /\ hist' = IF h.pc = "awaitBlob" THEN [h0 EXCEPT !.claims[h.index] = @ + 1] ELSE h0
     /\ microtasks' = Tail(microtasks) \o (IF join THEN <<MainTask>> ELSE <<>>)
     /\ mainPc' = IF join THEN "joining" ELSE mainPc

\* Lines 294-300, then the loop head again.
StoreAndLoop(s, pageResults) ==
  LET index == runSlot[s].index
  IN /\ pageResultsByIndex' = StoreResult(pageResultsByIndex, index, completed, pageResults)
     /\ completed' = completed + 1
     /\ EnterLoop(s, [hist EXCEPT !.writes[index] = @ + 1, !.processed = @ \cup {index},
                                  !.outOfOrder = @ \/ (\E k \in 0..(index - 1) : k \notin hist.processed)])

RunLoop(s) ==
  /\ microtasks # <<>> /\ Head(microtasks) = s
  /\ runSlot[s].pc = "loop"
  /\ EnterLoop(s, hist)
  /\ lastOp' = [op |-> "loop", slot |-> s]
  /\ UNCHANGED <<call, sampledPreviews, batch, input, poolObj, errorEvents, destroyCalls, pool, workerDisabled, completed,
                 pageResultsByIndex, encodedPages, mappingCtx, xtcPages, pdfPage>>

\* getBlob(index) settles.
BlobSettled(s, ok) ==
  /\ microtasks = <<>>
  /\ s \in DOMAIN runSlot
  /\ runSlot[s].pc = "awaitBlob"
  /\ ~ok => input.fileType = "cbz"
  /\ runSlot' = [runSlot EXCEPT ![s].pc = IF ok THEN "blobOk" ELSE "blobErr"]
  /\ microtasks' = <<s>>
  /\ lastOp' = [op |-> "blob", slot |-> s, ok |-> ok]
  /\ UNCHANGED <<call, sampledPreviews, batch, input, poolObj, errorEvents, destroyCalls, mainPc, pool, workerDisabled, completed,
                 nextIndex, pageResultsByIndex, encodedPages, mappingCtx, xtcPages, pdfPage, hist>>

\* `await getBlob(index)` throws: runSlot(s) rejects, and so does Promise.all.
RunBlobFailed(s) ==
  /\ microtasks # <<>> /\ Head(microtasks) = s
  /\ runSlot[s].pc = "blobErr"
  /\ runSlot' = [runSlot EXCEPT ![s].pc = "threw"]
  /\ microtasks' = Tail(microtasks) \o (IF mainPc = "awaitAll" THEN <<MainTask>> ELSE <<>>)
  /\ mainPc' = IF mainPc = "awaitAll" THEN "joining" ELSE mainPc
  /\ lastOp' = [op |-> "blobFailed", slot |-> s]
  /\ UNCHANGED <<call, sampledPreviews, batch, input, poolObj, errorEvents, destroyCalls, pool, workerDisabled, completed,
                 nextIndex, pageResultsByIndex, encodedPages, mappingCtx, xtcPages, pdfPage, hist>>

\* `if (pool && !workerDisabled)` (line 257)
UsePool(poolVar, disabled) == poolVar = "pool" /\ ~disabled

\* Lines 257-259: the page goes to the pool.
RunSubmit(s) ==
  /\ microtasks # <<>> /\ Head(microtasks) = s
  /\ runSlot[s].pc = "blobOk"
  /\ UsePool(pool, workerDisabled)
  /\ poolObj' = ProcessPage(poolObj, PageNum(runSlot[s].index))
  /\ runSlot' = [runSlot EXCEPT ![s].pc = "awaitJob",
                                ![s].job = IF ProcessPageRejects(poolObj) THEN NoJob ELSE poolObj.nextJobId]
  /\ microtasks' = Tail(microtasks) \o (IF ProcessPageRejects(poolObj) THEN <<s>> ELSE <<>>)
  /\ hist' = IF ProcessPageRejects(poolObj) THEN hist
             ELSE [hist EXCEPT !.workerStarts[runSlot[s].index] = @ + 1]
  /\ lastOp' = [op |-> "submit", slot |-> s]
  /\ UNCHANGED <<call, sampledPreviews, batch, input, errorEvents, destroyCalls, mainPc, pool, workerDisabled, completed,
                 nextIndex, pageResultsByIndex, encodedPages, mappingCtx, xtcPages, pdfPage>>

\* Lines 257 and 281-282: no pool, the page is processed in-process.
RunInProcess(s) ==
  /\ microtasks # <<>> /\ Head(microtasks) = s
  /\ runSlot[s].pc = "blobOk"
  /\ ~UsePool(pool, workerDisabled)
  /\ runSlot' = [runSlot EXCEPT ![s].pc = "awaitImage"]
  /\ microtasks' = Tail(microtasks)
  /\ hist' = [hist EXCEPT !.inProcStarts[runSlot[s].index] = @ + 1]
  /\ lastOp' = [op |-> "inProcess", slot |-> s]
  /\ UNCHANGED <<call, sampledPreviews, batch, input, poolObj, errorEvents, destroyCalls, mainPc, pool, workerDisabled, completed,
                 nextIndex, pageResultsByIndex, encodedPages, mappingCtx, xtcPages, pdfPage>>

\* the in-process path taken whatever the worker returned
NeedsInProcessAlways(pageResults) == TRUE

\* `if (pageResults.length === 0)` (line 281)
NeedsInProcess(pageResults) == Len(pageResults) = 0

\* a catch block that forgets pool.destroy()
CatchBlockNoDestroy(disabled, poolVar) ==
  IF ~disabled THEN [workerDisabled |-> TRUE, pool |-> "null", destroy |-> FALSE]
  ELSE [workerDisabled |-> disabled, pool |-> poolVar, destroy |-> FALSE]

\* The catch block of lines 272-278: new workerDisabled, new pool, and whether pool.destroy() runs.
CatchBlock(disabled, poolVar) ==
  IF ~disabled THEN [workerDisabled |-> TRUE, pool |-> "null", destroy |-> TRUE]
  ELSE [workerDisabled |-> disabled, pool |-> poolVar, destroy |-> FALSE]

SlotJobStatus(s) == IF runSlot[s].job = NoJob THEN "rejected" ELSE poolObj.status[runSlot[s].job]

\* `await pool.processPage(...)` returns the worker's pages (lines 260, 281, 294-300).
RunJobResolved(s) ==
  /\ microtasks # <<>> /\ Head(microtasks) = s
  /\ runSlot[s].pc = "awaitJob"
  /\ SlotJobStatus(s) = "resolved"
  /\ LET pageResults == WorkerPages(runSlot[s].index)
     IN IF NeedsInProcess(pageResults)
        THEN /\ runSlot' = [runSlot EXCEPT ![s].pc = "awaitImage"]
             /\ microtasks' = Tail(microtasks)
             /\ hist' = [hist EXCEPT !.inProcStarts[runSlot[s].index] = @ + 1]
             /\ UNCHANGED <<mainPc, completed, nextIndex, pageResultsByIndex>>
        ELSE StoreAndLoop(s, pageResults)
  /\ lastOp' = [op |-> "jobResolved", slot |-> s]
  /\ UNCHANGED <<call, sampledPreviews, batch, input, poolObj, errorEvents, destroyCalls, pool, workerDisabled,
                 encodedPages, mappingCtx, xtcPages, pdfPage>>

\* `await pool.processPage(...)` throws: the catch block (lines 272-278), then lines 281-282.
RunJobRejected(s) ==
  /\ microtasks # <<>> /\ Head(microtasks) = s
  /\ runSlot[s].pc = "awaitJob"
  /\ SlotJobStatus(s) = "rejected"
  /\ LET index == runSlot[s].index
         h1 == [hist EXCEPT !.inProcStarts[index] = @ + 1]
         c == CatchBlock(workerDisabled, pool)
     IN /\ workerDisabled' = c.workerDisabled
        /\ pool' = c.pool
        /\ IF c.destroy
           THEN /\ poolObj' = Destroy(poolObj)
                /\ destroyCalls' = destroyCalls + 1
                /\ microtasks' = Tail(microtasks) \o AwaitersOf(DestroyRejects(poolObj))
           ELSE /\ microtasks' = Tail(microtasks)
                /\ UNCHANGED <<poolObj, destroyCalls>>
        /\ IF ~workerDisabled
           THEN hist' = [h1 EXCEPT
                  !.fallbackInFlight = {poolObj.jobPage[CurrentJobs(poolObj)[k]] - 1 :
                                           k \in DOMAIN CurrentJobs(poolObj)},
                  !.fallbackDone = DOMAIN pageResultsByIndex]
           ELSE hist' = h1
  /\ runSlot' = [runSlot EXCEPT ![s].pc = "awaitImage"]
  /\ lastOp' = [op |-> "jobRejected", slot |-> s]
  /\ UNCHANGED <<call, sampledPreviews, batch, input, errorEvents, mainPc, completed, nextIndex, pageResultsByIndex,
                 encodedPages, mappingCtx, xtcPages, pdfPage>>

\* img.onload / img.onerror of processImage
ImageSettled(s) ==
  /\ microtasks = <<>>
  /\ s \in DOMAIN runSlot
  /\ runSlot[s].pc = "awaitImage"
  /\ runSlot' = [runSlot EXCEPT ![s].pc = "imageDone"]
  /\ microtasks' = <<s>>
  /\ lastOp' = [op |-> "image", slot |-> s]
  /\ UNCHANGED <<call, sampledPreviews, batch, input, poolObj, errorEvents, destroyCalls, mainPc, pool, workerDisabled, completed,
                 nextIndex, pageResultsByIndex, encodedPages, mappingCtx, xtcPages, pdfPage, hist>>

\* `await processImage(...)` returns (lines 282-283, 294-300).
RunImageDone(s) ==
  /\ microtasks # <<>> /\ Head(microtasks) = s
  /\ runSlot[s].pc = "imageDone"
  /\ StoreAndLoop(s, InProcessPages(runSlot[s].index))
  /\ lastOp' = [op |-> "imageDone", slot |-> s]
  /\ UNCHANGED <<call, sampledPreviews, batch, input, poolObj, errorEvents, destroyCalls, pool, workerDisabled,
                 encodedPages, mappingCtx, xtcPages, pdfPage>>

\* pageResultsByIndex[i] || []
ResultsAt(i) == IF i \in DOMAIN pageResultsByIndex THEN pageResultsByIndex[i] ELSE <<>>

RECURSIVE ConcatResults(_)
\* encodedPages after the loop of lines 312-316 has pushed the pages of indices 0..n-1
ConcatResults(n) == IF n = 0 THEN <<>> ELSE ConcatResults(n - 1) \o ResultsAt(n - 1)

\* Continuation of `await Promise.all(...)`: the finally block (line 307), then either the
\* rethrow or lines 310-318.
RunMainJoin ==
  /\ microtasks # <<>> /\ Head(microtasks) = MainTask
  /\ mainPc = "joining"
  /\ poolObj' = IF pool = "pool" THEN Destroy(poolObj) ELSE poolObj
  /\ destroyCalls' = IF pool = "pool" THEN destroyCalls + 1 ELSE destroyCalls
  /\ LET woken == IF pool = "pool" THEN AwaitersOf(DestroyRejects(poolObj)) ELSE <<>>
         n == input.totalPages
     IN IF \E s \in DOMAIN runSlot : runSlot[s].pc = "threw"
        THEN /\ mainPc' = "threw"
             /\ microtasks' = Tail(microtasks) \o woken
             /\ UNCHANGED <<encodedPages, mappingCtx, hist>>
        ELSE /\ mainPc' = "returned"
             /\ mappingCtx' = [k \in 1..n |-> <<OriginalPage(k - 1), Len(ResultsAt(k - 1))>>]
             /\ encodedPages' = ConcatResults(n)
             /\ hist' = [hist EXCEPT !.mapLog =
                           [k \in 1..n |-> [index |-> k - 1,
                                            unprocessed |-> n - Cardinality(hist.processed)]]]
             /\ microtasks' = (Tail(microtasks) \o woken) \o <<FinalizeTask>>
  /\ lastOp' = [op |-> "join"]
  /\ UNCHANGED <<call, sampledPreviews, batch, input, errorEvents, pool, workerDisabled, completed, nextIndex,
                 pageResultsByIndex, runSlot, xtcPages, pdfPage>>

\* finalizeConversionResult up to the call of buildXtcFromXtgPages
RunFinalize ==
  /\ microtasks # <<>> /\ Head(microtasks) = FinalizeTask
  /\ mainPc = "returned"
  /\ encodedPages' = SortByName(encodedPages)
  /\ xtcPages' = SortByName(encodedPages)
  /\ mainPc' = "finalized"
  /\ microtasks' = Tail(microtasks)
  /\ lastOp' = [op |-> "finalize"]
  /\ UNCHANGED <<call, sampledPreviews, batch, input, poolObj, errorEvents, destroyCalls, pool, workerDisabled, completed,
                 nextIndex, pageResultsByIndex, runSlot, mappingCtx, pdfPage, hist>>

\* ======================================================= convertPdfToXtc

StartPdf ==
  /\ mainPc = "start"
  /\ input.fileType = "pdf"
  /\ pdfPage' = 1
  /\ mainPc' = "awaitRender"
  /\ lastOp' = [op |-> "startPdf"]
  /\ UNCHANGED <<call, sampledPreviews, batch, input, poolObj, microtasks, errorEvents, destroyCalls, pool, workerDisabled,
                 completed, nextIndex, pageResultsByIndex, runSlot, encodedPages, mappingCtx,
                 xtcPages, hist>>

\* pdf.getPage(i) and page.render(...) of the current page settle.
PdfRendered(ok) ==
  /\ microtasks = <<>>
  /\ mainPc = "awaitRender"
  /\ mainPc' = IF ok THEN "rendered" ELSE "renderFailed"
  /\ microtasks' = <<PdfTask>>
  /\ lastOp' = [op |-> "render", ok |-> ok]
  /\ UNCHANGED <<call, sampledPreviews, batch, input, poolObj, errorEvents, destroyCalls, pool, workerDisabled, completed,
                 nextIndex, pageResultsByIndex, runSlot, encodedPages, mappingCtx, xtcPages,
                 pdfPage, hist>>

RunPdfFailed ==
  /\ microtasks # <<>> /\ Head(microtasks) = PdfTask
  /\ mainPc = "renderFailed"
  /\ mainPc' = "threw"
  /\ microtasks' = Tail(microtasks)
  /\ lastOp' = [op |-> "pdfFailed"]
  /\ UNCHANGED <<call, sampledPreviews, batch, input, poolObj, errorEvents, destroyCalls, pool, workerDisabled, completed,
                 nextIndex, pageResultsByIndex, runSlot, encodedPages, mappingCtx, xtcPages,
                 pdfPage, hist>>

\* Lines 527-545 for page i, then the next iteration or finalizeConversionResult.
RunPdfPage ==
  /\ microtasks # <<>> /\ Head(microtasks) = PdfTask
  /\ mainPc = "rendered"
  /\ LET i == pdfPage
         pages == PdfPages(i)
         numPages == input.totalPages
         pushed == encodedPages \o pages
     IN /\ mappingCtx' = Append(mappingCtx, <<i, Len(pages)>>)
        /\ hist' = [hist EXCEPT !.processed = @ \cup {i - 1},
                                !.pdfResults = Append(@, pages),
                                !.mapLog = Append(@, [index |-> i - 1,
                                                      unprocessed |-> numPages - i])]
        /\ completed' = i
        /\ pdfPage' = i + 1
        /\ IF i + 1 <= numPages
           THEN /\ mainPc' = "awaitRender"
                /\ encodedPages' = pushed
                /\ UNCHANGED xtcPages
           ELSE /\ mainPc' = "finalized"
                /\ encodedPages' = SortByName(pushed)
                /\ xtcPages' = SortByName(pushed)
  /\ microtasks' = Tail(microtasks)
  /\ lastOp' = [op |-> "pdfPage"]
  /\ UNCHANGED <<call, sampledPreviews, batch, input, poolObj, errorEvents, destroyCalls, pool, workerDisabled,
                 nextIndex, pageResultsByIndex, runSlot>>

\* ==================================================================== Next

Next ==
  \/ Start
  \/ \E s \in DOMAIN runSlot : RunLoop(s)
  \/ \E s \in DOMAIN runSlot : \E ok \in BOOLEAN : BlobSettled(s, ok)
  \/ \E s \in DOMAIN runSlot : RunBlobFailed(s)
  \/ \E s \in DOMAIN runSlot : RunSubmit(s)
  \/ \E s \in DOMAIN runSlot : RunInProcess(s)
  \/ \E l \in DOMAIN poolObj.slots : \E j \in poolObj.posted[l] : \E e \in BOOLEAN : WorkerMessage(l, j, e)
  \/ \E l \in DOMAIN poolObj.slots : WorkerError(l)
  \/ \E s \in DOMAIN runSlot : RunJobResolved(s)
  \/ \E s \in DOMAIN runSlot : RunJobRejected(s)
  \/ \E s \in DOMAIN runSlot : ImageSettled(s)
  \/ \E s \in DOMAIN runSlot : RunImageDone(s)
  \/ RunMainJoin
  \/ RunFinalize
  \/ StartPdf
  \/ \E ok \in BOOLEAN : PdfRendered(ok)
  \/ RunPdfFailed
  \/ RunPdfPage

Spec == Init /\ [][Next]_vars

\* Every step but a worker's spontaneous error event: the event loop runs every pending
\* continuation, every blob read and image load settles, a worker answers every job posted
\* to it, and a PDF page render settles.
Progress ==
  \/ Start
  \/ \E s \in DOMAIN runSlot :
       \/ RunLoop(s) \/ RunBlobFailed(s) \/ RunSubmit(s) \/ RunInProcess(s)
       \/ RunJobResolved(s) \/ RunJobRejected(s) \/ RunImageDone(s)
       \/ ImageSettled(s)
       \/ \E ok \in BOOLEAN : BlobSettled(s, ok)
  \/ \E l \in DOMAIN poolObj.slots : \E j \in poolObj.posted[l] : \E e \in BOOLEAN : WorkerMessage(l, j, e)
  \/ RunMainJoin \/ RunFinalize
  \/ StartPdf \/ (\E ok \in BOOLEAN : PdfRendered(ok)) \/ RunPdfFailed \/ RunPdfPage

\* The cover only decides which image stands at which processing index; the fair
\* specification takes the batches whose metadata resolves no cover.
FairInit == Init /\ input.coverPage = 0

FairSpec == FairInit /\ [][Next]_vars /\ WF_vars(Progress)

\* ================================================= the page functions on their own

MaxSide == 4

\* options.splitMode is a string: the three values of the UI and any other value
SplitModes == {"nosplit", "split", "overlap", "other"}
Orientations == {"landscape", "portrait"}

progVars == <<input, poolObj, microtasks, lastOp, errorEvents, destroyCalls, mainPc, pool,
              workerDisabled, completed, nextIndex, pageResultsByIndex, runSlot,
              encodedPages, mappingCtx, xtcPages, pdfPage, hist, sampledPreviews, batch>>

\* the rows [y, y + h) of the cropped image the two extractAndRotate calls of a half split take
HalfBands(height) ==
  LET halfHeight == height \div 2
  IN <<[y |-> 0, h |-> halfHeight], [y |-> halfHeight, h |-> halfHeight]>>

\* processLoadedImage / processBitmap on a cropped image of width x height
CallProcessLoadedImage ==
  \E pageNum \in 1..MaxPages, orientation \in Orientations, splitMode \in SplitModes,
     width \in 1..MaxSide, height \in 1..MaxSide :
    /\ call.fn = "none"
    /\ call' = [fn |-> "processLoadedImage", pageNum |-> pageNum, orientation |-> orientation,
                 splitMode |-> splitMode, width |-> width, height |-> height,
                 names |-> ProcessedNames(pageNum, orientation, splitMode, width < height),
                 bands |-> IF orientation = "landscape" /\ width < height
                              /\ splitMode \notin {"nosplit", "overlap"}
                           THEN HalfBands(height) ELSE <<>>]
    /\ UNCHANGED progVars

MaxDigits == 4

\* first page numbers of the pairs below: 1, and the last page number of each digit count
PageBoundaries == {1} \cup {10 ^ k - 1 : k \in 1..MaxDigits}

\* finalizeConversionResult sorts the names generated, in this order, for the source pages
\* pageNum and pageNum + 1 of a batch
CallSortNames ==
  \E pageNum \in PageBoundaries, orientation \in Orientations, splitMode \in SplitModes,
     tall1 \in BOOLEAN, tall2 \in BOOLEAN :
    LET generated == ProcessedNames(pageNum, orientation, splitMode, tall1)
                       \o ProcessedNames(pageNum + 1, orientation, splitMode, tall2)
    IN /\ call.fn = "none"
       /\ call' = [fn |-> "sort", pageNum |-> pageNum, generated |-> generated,
                    sorted |-> SortByName(generated)]
       /\ UNCHANGED progVars

MaxBlobs == 3

\* sizes of the header and of an index entry of the container (app.js lines 398-399)
HeaderSize == 48
IndexEntrySize == 16

\* view.setUint16 keeps the low 16 bits of the value
Uint16(v) == v % (2 ^ 16)

\* `const headerSize = 22` of imageDataToXtg
XtgHeaderSize == 22

\* Math.ceil(w / 8)
RowBytes(w) == (w + 7) \div 8

\* byteLength of the XTG blob of a width x height bitmap: the header and the body
XtgByteLength(width, height) == XtgHeaderSize + RowBytes(width) * height

MaxXtgWidth == 9
MaxXtgHeight == 9

\* red channel values on both sides of the threshold
Dark == 127
Lit == 128

\* bitmaps of w x h pixels given by their red channel, data[y * w + x]: one colour, or
\* one colour with a single pixel of the other colour
Bitmaps(w, h) ==
  { [width |-> w, height |-> h, red |-> [p \in 0..(w * h - 1) |-> IF p = q THEN a ELSE b]] :
      q \in -1..(w * h - 1), a \in {Dark, Lit}, b \in {Dark, Lit} }

\* least significant bit first
BitIndexLsbFirst(x) == x % 8

\* `const bitIndex = 7 - (x % 8)`
BitIndex(x) == 7 - (x % 8)

\* pixelData[b] after the loops: the bits of the pixels x of row y with
\* y * rowBytes + floor(x / 8) = b and red >= 128, OR-ed into a zero byte
PixelByte(bitmap, b) ==
  LET w == bitmap.width
      rowBytes == RowBytes(w)
      y == b \div rowBytes
      x0 == 8 * (b % rowBytes)
      Bit(k) == IF x0 + k < w /\ bitmap.red[y * w + x0 + k] >= 128
                  THEN 2 ^ BitIndex(x0 + k) ELSE 0
  IN Bit(0) + Bit(1) + Bit(2) + Bit(3) + Bit(4) + Bit(5) + Bit(6) + Bit(7)

\* imageDataToXtg: the header fields, the digest and the body (bytes indexed from 0)
ImageDataToXtg(bitmap) ==
  LET length == RowBytes(bitmap.width) * bitmap.height
      pixelData == [b \in 0..(length - 1) |-> PixelByte(bitmap, b)]
  IN [ width |-> Uint16(bitmap.width),
       height |-> Uint16(bitmap.height),
       dataSize |-> length,
       md5digest |-> [i \in 0..7 |-> IF i < length THEN pixelData[i] ELSE 0],
       body |-> pixelData,
       byteLength |-> XtgHeaderSize + length ]

CallImageDataToXtg ==
  \E w \in 1..MaxXtgWidth, h \in 1..MaxXtgHeight : \E bitmap \in Bitmaps(w, h) :
    /\ call.fn = "none"
    /\ call' = [fn |-> "imageDataToXtg", bitmap |-> bitmap, xtg |-> ImageDataToXtg(bitmap)]
    /\ UNCHANGED progVars

\* size of every page canvas (canvas-utils.js lines 4-5)
TARGET_WIDTH == 480
TARGET_HEIGHT == 800

\* every blob is the XTG of getImageData(0, 0, TARGET_WIDTH, TARGET_HEIGHT)
BlobSizes == {XtgByteLength(TARGET_WIDTH, TARGET_HEIGHT)}

RECURSIVE SumTo(_, _)
\* blobs[1].byteLength + ... + blobs[k].byteLength
SumTo(blobs, k) == IF k = 0 THEN 0 ELSE SumTo(blobs, k - 1) + blobs[k]

\* a data offset that leaves out the header
DataOffsetNoHeader(pageCount) == pageCount * IndexEntrySize

\* `const dataOffset = indexOffset + pageCount * indexEntrySize` with indexOffset = headerSize
DataOffset(pageCount) == HeaderSize + pageCount * IndexEntrySize

\* buildXtc on the blobs of the given byte lengths: the header fields it writes, the index
\* entries, and the length of the buffer. relOffset starts at dataOffset (line 427).
BuildXtc(blobs) ==
  LET pageCount == Len(blobs)
      indexOffset == HeaderSize
      dataOffset == DataOffset(pageCount)
  IN [ pageCount |-> Uint16(pageCount),
       indexOffset |-> indexOffset,
       dataOffset |-> dataOffset,
       entries |-> [i \in 1..pageCount |->
                     [offset |-> dataOffset + SumTo(blobs, i - 1), size |-> blobs[i]]],
       byteLength |-> dataOffset + SumTo(blobs, pageCount) ]

CallBuildXtc ==
  \E n \in 0..MaxBlobs : \E blobs \in [1..n -> BlobSizes] :
    /\ call.fn = "none"
    /\ call' = [fn |-> "buildXtc", blobs |-> blobs, xtc |-> BuildXtc(blobs)]
    /\ UNCHANGED progVars

MaxCropSide == 12

Min(a, b) == IF a < b THEN a ELSE b
Max(a, b) == IF a > b THEN a ELSE b

\* margin options: a finite number of tenths of a percent, or a non-finite number
\* (tenths 0 for NaN, 1 for Infinity, -1 for -Infinity)
MarginOptions ==
  [finite : {TRUE}, tenths : {-10, 0, 95, 100, 200, 250}]
    \cup [finite : {FALSE}, tenths : {-1, 0, 1}]

\* clampMarginPercent, in tenths of a percent
ClampMarginPercent(value) ==
  IF ~value.finite THEN 0 ELSE Max(0, Min(200, value.tenths))

\* Math.min(Math.floor(dimension * margin / 100), Math.floor((dimension - 1) / 2))
AxisCrop(dimension, margin) ==
  Min((dimension * margin) \div 1000, (dimension - 1) \div 2)

\* an extent that takes the crop off one side only
AxisExtentOneSide(dimension, crop) == Max(1, dimension - crop)

\* Math.max(1, dimension - crop * 2)
AxisExtent(dimension, crop) == Max(1, dimension - crop * 2)

GetAxisCropRect(sourceWidth, sourceHeight, options) ==
  LET horizontalMargin == ClampMarginPercent(options.horizontalMargin)
      verticalMargin == ClampMarginPercent(options.verticalMargin)
      cropX == AxisCrop(sourceWidth, horizontalMargin)
      cropY == AxisCrop(sourceHeight, verticalMargin)
  IN [x |-> cropX, y |-> cropY,
      width |-> AxisExtent(sourceWidth, cropX),
      height |-> AxisExtent(sourceHeight, cropY)]

CallGetAxisCropRect ==
  \E sourceWidth \in 1..MaxCropSide, sourceHeight \in 1..MaxCropSide,
     horizontalMargin \in MarginOptions, verticalMargin \in MarginOptions :
    LET options == [horizontalMargin |-> horizontalMargin, verticalMargin |-> verticalMargin]
    IN /\ call.fn = "none"
       /\ call' = [fn |-> "getAxisCropRect", sourceWidth |-> sourceWidth,
                    sourceHeight |-> sourceHeight, options |-> options,
                    rect |-> GetAxisCropRect(sourceWidth, sourceHeight, options)]
       /\ UNCHANGED progVars

\* `device: 'X4' | 'X3'`
Devices == {"X4", "X3"}

\* getTargetDimensions(device): the fixed output size of the device, 480 x 800 for the X4
\* and 528 x 792 for the X3
GetTargetDimensions(device) ==
  IF device = "X4" THEN [width |-> 480, height |-> 800] ELSE [width |-> 528, height |-> 792]

\* getOutputDimensions(options)
GetOutputDimensions(options) == GetTargetDimensions(options.device)

\* size of the bitmap a worker lane encodes: resizeWithPadding makes an OffscreenCanvas of
\* TARGET_WIDTH x TARGET_HEIGHT and buildWorkerPage reads getImageData(0, 0, TARGET_WIDTH,
\* TARGET_HEIGHT)
WorkerOutputDimensions(options) == [width |-> TARGET_WIDTH, height |-> TARGET_HEIGHT]

\* size of the bitmap the in-process lane encodes: processLoadedImage and
\* processCanvasAsImage resize to getOutputDimensions(options)
InProcessOutputDimensions(options) == GetOutputDimensions(options)

\* one page sized on both lanes with the same options
CallOutputDimensions ==
  \E device \in Devices :
    LET options == [device |-> device]
    IN /\ call.fn = "none"
       /\ call' = [fn |-> "outputDimensions", options |-> options,
                    worker |-> WorkerOutputDimensions(options),
                    inProcess |-> InProcessOutputDimensions(options)]
       /\ UNCHANGED progVars

FnInit ==
  /\ input \in { i \in Inputs : i.fileType = "pdf" /\ i.totalPages = 1 /\ i.coverPage = 0
                               /\ i.options.splitMode = "split" /\ i.kind[0] = "wide" }
  /\ call = [fn |-> "none"]
  /\ sampledPreviews = <<>>
  /\ batch = NoBatch
  /\ poolObj = NewPool(0)
  /\ microtasks = <<>>
  /\ lastOp = [op |-> "new"]
  /\ errorEvents = 0
  /\ destroyCalls = 0
  /\ mainPc = "functions"
  /\ pool = "null"
  /\ workerDisabled = FALSE
  /\ completed = 0
  /\ nextIndex = 0
  /\ pageResultsByIndex = <<>>
  /\ runSlot = <<>>
  /\ encodedPages = <<>>
  /\ mappingCtx = <<>>
  /\ xtcPages = <<>>
  /\ pdfPage = 0
  /\ hist = EmptyHist

FnNext ==
  \/ CallProcessLoadedImage
  \/ CallSortNames
  \/ CallBuildXtc
  \/ CallImageDataToXtg
  \/ CallGetAxisCropRect
  \/ CallOutputDimensions

FnSpec == FnInit /\ [][FnNext]_vars

\* ====================================================== sampled previews

PREVIEW_EVERY_N_PAGES == 5
MAX_STORED_PREVIEWS == 12

MaxPreviewPages == 56

\* shouldGenerateSampledPreview(pageNum, totalPages)
ShouldGenerateSampledPreview(pageNum, totalPages) ==
  LET interval == IF totalPages > 700 THEN 20
                  ELSE IF totalPages > 350 THEN 12
                  ELSE IF totalPages > 150 THEN 8
                  ELSE PREVIEW_EVERY_N_PAGES
  IN pageNum = 1 \/ pageNum = totalPages \/ pageNum % interval = 0

\* `includePreview` of lines 248-250 and 531-533
IncludePreview(previews, pageNum) ==
  /\ input.showProgressPreview
  /\ Len(previews) < MAX_STORED_PREVIEWS
  /\ ShouldGenerateSampledPreview(pageNum, input.totalPages)

\* a push without the length test
PushPreviewUnchecked(previews, previewForStorage, pageNum) ==
  IF previewForStorage THEN Append(previews, pageNum) ELSE previews

\* lines 295-297: `if (previewForStorage && sampledPreviews.length < MAX_STORED_PREVIEWS)
\* sampledPreviews.push(previewForStorage)`; the preview of a page is named by its pageNum
PushPreview(previews, previewForStorage, pageNum) ==
  IF previewForStorage /\ Len(previews) < MAX_STORED_PREVIEWS
    THEN Append(previews, pageNum) ELSE previews

PreviewDone == [pc |-> "done", index |-> -1, includePreview |-> FALSE]

\* lines 235-251 for slot s: the slot returns, or claims the next index and waits for
\* its blob
ClaimedSlot(s, previews, disabled, next) ==
  IF (disabled /\ s > 0) \/ next >= input.totalPages THEN PreviewDone
  ELSE [pc |-> "blob", index |-> next, includePreview |-> IncludePreview(previews, next + 1)]

\* nextIndex after the loop head of slot s
ClaimedNextIndex(s, disabled, next) == IF disabled /\ s > 0 THEN next ELSE next + 1

\* the conversions whose previews are followed: archives on 0..MaxPool workers and PDFs,
\* of one page, two pages, or enough pages for more candidates than MAX_STORED_PREVIEWS;
\* the long ones have the previews switched on and only pages that decode
PreviewInputs ==
  { i \in [fileType : {"cbz", "pdf"}, totalPages : {1, 2, MaxPreviewPages}, workers : 0..MaxPool,
           showProgressPreview : BOOLEAN, allDecode : BOOLEAN] :
      /\ i.fileType = "pdf" => (i.workers = 0 /\ i.allDecode)
      /\ i.totalPages > 2 => (i.showProgressPreview /\ i.allDecode) }

\* processArchiveSourcePages up to `await Promise.all`: the slots run in order to their first
\* await; convertPdfToXtc up to the first `await page.render`
PreviewStart ==
  /\ mainPc = "start"
  /\ mainPc' = "awaitAll"
  /\ pool' = IF input.workers > 0 THEN "pool" ELSE "null"
  /\ IF input.fileType = "pdf"
       THEN /\ runSlot' = [s \in {0} |-> [pc |-> "render", index |-> 0, includePreview |-> FALSE]]
            /\ nextIndex' = nextIndex
       ELSE /\ runSlot' = [s \in 0..(Concurrency - 1) |-> ClaimedSlot(s, sampledPreviews, FALSE, s)]
            /\ nextIndex' = Concurrency
  /\ UNCHANGED <<call, sampledPreviews, batch, input, poolObj, microtasks, lastOp, errorEvents,
                 destroyCalls, workerDisabled, completed, pageResultsByIndex, encodedPages,
                 mappingCtx, xtcPages, pdfPage, hist>>

\* lines 294-301 and the next loop head for slot s
StoreAndClaim(s, previewForStorage) ==
  LET previews == PushPreview(sampledPreviews, previewForStorage, runSlot[s].index + 1)
  IN /\ sampledPreviews' = previews
     /\ completed' = completed + 1
     /\ runSlot' = [runSlot EXCEPT ![s] = ClaimedSlot(s, previews, workerDisabled, nextIndex)]
     /\ nextIndex' = ClaimedNextIndex(s, workerDisabled, nextIndex)

\* `await getBlob(index)` resolves: line 257 picks the lane
PreviewBlobDone(s) ==
  /\ mainPc = "awaitAll"
  /\ runSlot[s].pc = "blob"
  /\ runSlot' = [runSlot EXCEPT ![s].pc = IF UsePool(pool, workerDisabled) THEN "worker" ELSE "inproc"]
  /\ UNCHANGED <<call, sampledPreviews, batch, input, poolObj, microtasks, lastOp, errorEvents,
                 destroyCalls, mainPc, pool, workerDisabled, completed, nextIndex,
                 pageResultsByIndex, encodedPages, mappingCtx, xtcPages, pdfPage, hist>>

\* `await pool.processPage(...)` settles (lines 259-278): resolved with the pages (ok), which
\* a destroyed pool never does, or rejected
PreviewWorkerDone(s, ok) ==
  /\ mainPc = "awaitAll"
  /\ runSlot[s].pc = "worker"
  /\ ok => ~workerDisabled
  /\ IF ~ok
       THEN /\ workerDisabled' = TRUE
            /\ pool' = "null"
            /\ runSlot' = [runSlot EXCEPT ![s].pc = "inproc"]
            /\ UNCHANGED <<sampledPreviews, completed, nextIndex>>
       ELSE /\ UNCHANGED <<workerDisabled, pool>>
            /\ IF runSlot[s].includePreview /\ Len(sampledPreviews) < MAX_STORED_PREVIEWS
                 THEN /\ runSlot' = [runSlot EXCEPT ![s].pc = "dataUrl"]
                      /\ UNCHANGED <<sampledPreviews, completed, nextIndex>>
                 ELSE StoreAndClaim(s, FALSE)
  /\ UNCHANGED <<call, batch, input, poolObj, microtasks, lastOp, errorEvents, destroyCalls,
                 mainPc, pageResultsByIndex, encodedPages, mappingCtx, xtcPages, pdfPage, hist>>

\* `await blobToDataUrl(previewBlob)` resolves (line 268), then lines 294-301
PreviewDataUrlDone(s) ==
  /\ mainPc = "awaitAll"
  /\ runSlot[s].pc = "dataUrl"
  /\ StoreAndClaim(s, TRUE)
  /\ UNCHANGED <<call, batch, input, poolObj, microtasks, lastOp, errorEvents, destroyCalls,
                 mainPc, pool, workerDisabled, pageResultsByIndex, encodedPages, mappingCtx,
                 xtcPages, pdfPage, hist>>

\* `await processImage(...)` resolves (lines 282-292) with the pages (ok) or with [] for an
\* image that does not decode, then lines 294-301
PreviewInProcessDone(s, ok) ==
  /\ mainPc = "awaitAll"
  /\ runSlot[s].pc = "inproc"
  /\ ~ok => ~input.allDecode
  /\ StoreAndClaim(s, runSlot[s].includePreview /\ ok /\ Len(sampledPreviews) < MAX_STORED_PREVIEWS)
  /\ UNCHANGED <<call, batch, input, poolObj, microtasks, lastOp, errorEvents, destroyCalls,
                 mainPc, pool, workerDisabled, pageResultsByIndex, encodedPages, mappingCtx,
                 xtcPages, pdfPage, hist>>

\* convertPdfToXtc: the lane after PDF page index + 1 is done (loop head of line 512)
PdfNextPage(index) ==
  IF index + 1 < input.totalPages
    THEN [pc |-> "render", index |-> index + 1, includePreview |-> FALSE]
    ELSE PreviewDone

\* convertPdfToXtc: `await page.render(...)` resolves, lines 527-534
PdfPreviewRendered ==
  /\ mainPc = "awaitAll"
  /\ runSlot[0].pc = "render"
  /\ runSlot' = [runSlot EXCEPT ![0] =
                   IF IncludePreview(sampledPreviews, runSlot[0].index + 1)
                     THEN [runSlot[0] EXCEPT !.pc = "pdfDataUrl", !.includePreview = TRUE]
                     ELSE PdfNextPage(runSlot[0].index)]
  /\ completed' = IF IncludePreview(sampledPreviews, runSlot[0].index + 1) THEN completed
                  ELSE completed + 1
  /\ UNCHANGED <<call, sampledPreviews, batch, input, poolObj, microtasks, lastOp, errorEvents,
                 destroyCalls, mainPc, pool, workerDisabled, nextIndex, pageResultsByIndex,
                 encodedPages, mappingCtx, xtcPages, pdfPage, hist>>

\* convertPdfToXtc: `await blobToDataUrl(previewBlob)` resolves, lines 537-541
PdfPreviewDataUrlDone ==
  /\ mainPc = "awaitAll"
  /\ runSlot[0].pc = "pdfDataUrl"
  /\ sampledPreviews' = PushPreview(sampledPreviews, TRUE, runSlot[0].index + 1)
  /\ completed' = completed + 1
  /\ runSlot' = [runSlot EXCEPT ![0] = PdfNextPage(runSlot[0].index)]
  /\ UNCHANGED <<call, batch, input, poolObj, microtasks, lastOp, errorEvents, destroyCalls,
                 mainPc, pool, workerDisabled, nextIndex, pageResultsByIndex, encodedPages,
                 mappingCtx, xtcPages, pdfPage, hist>>

\* every slot has returned: `await Promise.all` resolves and the function returns
\* sampledPreviews; the PDF loop has ended
PreviewJoin ==
  /\ mainPc = "awaitAll"
  /\ \A s \in DOMAIN runSlot : runSlot[s].pc = "done"
  /\ mainPc' = "returned"
  /\ UNCHANGED <<call, sampledPreviews, batch, input, poolObj, microtasks, lastOp, errorEvents,
                 destroyCalls, pool, workerDisabled, completed, nextIndex, runSlot,
                 pageResultsByIndex, encodedPages, mappingCtx, xtcPages, pdfPage, hist>>

PreviewInit ==
  /\ input \in PreviewInputs
  /\ batch = NoBatch
  /\ call = [fn |-> "none"]
  /\ sampledPreviews = <<>>
  /\ poolObj = NewPool(0)
  /\ microtasks = <<>>
  /\ lastOp = [op |-> "new"]
  /\ errorEvents = 0
  /\ destroyCalls = 0
  /\ mainPc = "start"
  /\ pool = "null"
  /\ workerDisabled = FALSE
  /\ completed = 0
  /\ nextIndex = 0
  /\ pageResultsByIndex = <<>>
  /\ runSlot = <<>>
  /\ encodedPages = <<>>
  /\ mappingCtx = <<>>
  /\ xtcPages = <<>>
  /\ pdfPage = 0
  /\ hist = EmptyHist

PreviewNext ==
  \/ PreviewStart
  \/ \E s \in DOMAIN runSlot : PreviewBlobDone(s)
  \/ \E s \in DOMAIN runSlot : \E ok \in BOOLEAN : PreviewWorkerDone(s, ok)
  \/ \E s \in DOMAIN runSlot : PreviewDataUrlDone(s)
  \/ \E s \in DOMAIN runSlot : \E ok \in BOOLEAN : PreviewInProcessDone(s, ok)
  \/ PdfPreviewRendered
  \/ PdfPreviewDataUrlDone
  \/ PreviewJoin

PreviewSpec == PreviewInit /\ [][PreviewNext]_vars

\* ================================================== batch of selected files

MaxFiles == 4

\* what a selected file holds: recognised images, no recognised image, or bytes the archive
\* reader rejects
FileKinds == {"comic", "noImages", "corrupt"}

\* convertCbzToXtc(file, ...) rejects: `throw new Error('No images found in CBZ')`, or the
\* rejection of JSZip.loadAsync
ConvertThrows(file) == file \in {"noImages", "corrupt"}

\* all variables but batch
sessionVars == <<input, poolObj, microtasks, lastOp, errorEvents, destroyCalls, mainPc, pool,
                 workerDisabled, completed, nextIndex, pageResultsByIndex, runSlot,
                 encodedPages, mappingCtx, xtcPages, pdfPage, hist, call, sampledPreviews>>

\* end of the loop body: `i++`, then the next file or lines 149-156
NextFile(b) ==
  [b EXCEPT !.i = @ + 1,
            !.pc = IF b.i + 1 < Len(b.files) THEN "converting" ELSE "complete"]

\* a catch block that gives up the rest of the batch
PushErrorAndStop(b) ==
  [b EXCEPT !.results = Append(@, [file |-> b.i, error |-> TRUE]), !.pc = "complete"]

\* the catch block: results.push({name, error: err.message})
PushError(b) ==
  NextFile([b EXCEPT !.results = Append(@, [file |-> b.i, error |-> TRUE])])

\* results.push(result)
PushResult(b) ==
  NextFile([b EXCEPT !.results = Append(@, [file |-> b.i, error |-> FALSE])])

\* startConversion / handleConvert up to the first `await convert...`
StartConversion ==
  /\ batch.pc \in {"idle", "complete"}
  /\ Len(batch.files) # 0
  /\ batch' = [batch EXCEPT !.results = <<>>, !.i = 0, !.pc = "converting"]
  /\ UNCHANGED sessionVars

\* the conversion of file i resolves
FileConverted ==
  /\ batch.pc = "converting"
  /\ ~ConvertThrows(batch.files[batch.i + 1])
  /\ batch' = PushResult(batch)
  /\ UNCHANGED sessionVars

\* the conversion of file i rejects
FileFailed ==
  /\ batch.pc = "converting"
  /\ ConvertThrows(batch.files[batch.i + 1])
  /\ batch' = PushError(batch)
  /\ UNCHANGED sessionVars

\* the batches of at most MaxFiles selected files
Batches ==
  UNION { [pc : {"idle"}, files : [1..n -> FileKinds], i : {0}, results : {<<>>}] : n \in 0..MaxFiles }

BatchInit ==
  /\ batch \in Batches
  /\ input \in { i \in Inputs : i.fileType = "cbz" /\ i.totalPages = 1 /\ i.coverPage = 0 /\ i.workers = 0
                               /\ i.options.splitMode = "split" /\ i.kind[0] = "wide" }
  /\ call = [fn |-> "none"]
  /\ sampledPreviews = <<>>
  /\ poolObj = NewPool(0)
  /\ microtasks = <<>>
  /\ lastOp = [op |-> "new"]
  /\ errorEvents = 0
  /\ destroyCalls = 0
  /\ mainPc = "batch"
  /\ pool = "null"
  /\ workerDisabled = FALSE
  /\ completed = 0
  /\ nextIndex = 0
  /\ pageResultsByIndex = <<>>
  /\ runSlot = <<>>
  /\ encodedPages = <<>>
  /\ mappingCtx = <<>>
  /\ xtcPages = <<>>
  /\ pdfPage = 0
  /\ hist = EmptyHist

BatchNext ==
  \/ StartConversion
  \/ FileConverted
  \/ FileFailed

BatchSpec == BatchInit /\ [][BatchNext]_vars

\* ============================================================ properties

Range(seq) == {seq[k] : k \in DOMAIN seq}
AllPages == 0..(input.totalPages - 1)
IsArchive == input.fileType # "pdf"
AnyRejected == \E j \in DOMAIN poolObj.status : poolObj.status[j] = "rejected"
BlobFailed == \E s \in DOMAIN runSlot : runSlot[s].pc \in {"blobErr", "threw"}
AllOnce == \A i \in AllPages : hist.writes[i] = 1 /\ i \in DOMAIN pageResultsByIndex
InProcessLanes == {s \in DOMAIN runSlot : runSlot[s].pc \in {"awaitImage", "imageDone"}}

\* C1: in processArchiveSourcePages every source index is claimed by exactly one slot and
\* pageResultsByIndex[index] is assigned exactly once: the claimed indices are exactly
\* 0..nextIndex-1, no index is claimed or written twice, no two slots hold the same index,
\* and when the function returns every index has been written once.
C1_SingleWriterPerIndex ==
  IsArchive =>
    /\ \A i \in AllPages :
         /\ hist.claims[i] <= 1
         /\ hist.writes[i] <= hist.claims[i]
         /\ (hist.claims[i] = 1 <=> i < nextIndex)
         /\ (hist.writes[i] = 1 <=> i \in DOMAIN pageResultsByIndex)
    /\ \A s, t \in DOMAIN runSlot :
         (s # t /\ runSlot[s].index = runSlot[t].index) => runSlot[s].index = -1
    /\ DOMAIN pageResultsByIndex \subseteq AllPages
    /\ (mainPc \in {"returned", "finalized"} => \A i \in AllPages : hist.claims[i] = 1 /\ AllOnce)

C1_Witness ==
  /\ IsArchive /\ input.workers >= 2 /\ input.totalPages = MaxPages
  /\ hist.outOfOrder
  /\ mainPc = "finalized" /\ AllOnce

\* C2: once a pool job has been rejected, the batch still runs to its end and every source
\* page ends with exactly one result entry (unless a blob read is rejected, which makes the
\* conversion throw).
C2_FallbackCompletes ==
  (AnyRejected /\ ~BlobFailed) ~> (BlobFailed \/ (mainPc = "finalized" /\ AllOnce))

C2_Witness ==
  /\ AnyRejected /\ workerDisabled /\ ~BlobFailed
  /\ input.totalPages = MaxPages
  /\ mainPc = "finalized" /\ AllOnce

\* C3: once the fallback has been triggered, at no time are two source pages being
\* processed concurrently.
C3_SingleLaneAfterFallback ==
  workerDisabled => Cardinality(InProcessLanes) <= 1

\* the continuation that is about to run is the catch block of a rejected job
CatchPending ==
  /\ microtasks # <<>>
  /\ Head(microtasks) \in DOMAIN runSlot
  /\ runSlot[Head(microtasks)].pc = "awaitJob"
  /\ SlotJobStatus(Head(microtasks)) = "rejected"

\* C4: the fallback is sticky: workerDisabled never goes back to false; while it is true
\* the pool is destroyed and the `pool` variable is null; after a pool job has been rejected
\* no job is created and nothing is posted to a worker; and a rejection is followed by the
\* catch block before any other event.
C4_StickyFallback ==
  [][ /\ (workerDisabled => workerDisabled')
      /\ (workerDisabled' => (pool' = "null" /\ poolObj'.isDestroyed))
      /\ (AnyRejected => /\ poolObj'.nextJobId = poolObj.nextJobId
                         /\ \A l \in DOMAIN poolObj.slots : poolObj'.posted[l] \subseteq poolObj.posted[l])
      /\ (AnyRejected' => (workerDisabled' \/ CatchPending')) ]_vars

C4_Witness ==
  /\ AnyRejected /\ workerDisabled
  /\ \E i \in AllPages : hist.workerStarts[i] = 0 /\ hist.writes[i] = 1

\* C5 (as claimed): when the fallback is triggered, a page whose job was completed or was in
\* flight on another lane is not processed a second time.
C5_NoSecondProcessing ==
  \A i \in hist.fallbackDone \cup hist.fallbackInFlight : hist.inProcStarts[i] = 0

\* C5 (amended): a page completed before the fallback is never processed again; a page whose
\* job was in flight on another lane is rejected by destroy and processed once more,
\* in-process, before it is written.
C5_OnlyCompletedPagesKept ==
  /\ \A i \in hist.fallbackDone :
       hist.inProcStarts[i] = 0 /\ hist.workerStarts[i] = 1 /\ hist.writes[i] = 1
  /\ \A i \in hist.fallbackInFlight :
       /\ i \notin hist.fallbackDone
       /\ hist.workerStarts[i] = 1
       /\ hist.inProcStarts[i] <= 1
       /\ (hist.writes[i] = 1 => hist.inProcStarts[i] = 1)

C5_Witness ==
  /\ hist.fallbackDone # {} /\ hist.fallbackInFlight # {}
  /\ mainPc = "finalized" /\ AllOnce

\* the names every source page yields, whatever lane processed it
ExpectedNames ==
  IF IsArchive THEN UNION {Range(InProcessPages(i)) : i \in AllPages}
  ELSE UNION {Range(PdfPages(i)) : i \in 1..input.totalPages}

IsAscending(pages) ==
  \A k \in 1..(Len(pages) - 1) : LocaleCompare(pages[k], pages[k + 1]) < 0

\* C6: the page sequence handed to the container builder is the same for every completion
\* order: it is the ascending (localeCompare) sequence of the output names of the batch.
C6_OrderByNameOnly ==
  mainPc = "finalized" =>
    /\ IsAscending(xtcPages)
    /\ Range(xtcPages) = ExpectedNames
    /\ Len(xtcPages) = Cardinality(ExpectedNames)

C6_Witness ==
  /\ mainPc = "finalized" /\ IsArchive /\ input.workers >= 2
  /\ hist.outOfOrder
  /\ Len(xtcPages) >= 4

\* C7 (as claimed): in every conversion path no addOriginalPage call happens while a page
\* of the batch is still unprocessed.
C7_MappingAfterAllPages ==
  \A k \in DOMAIN hist.mapLog : hist.mapLog[k].unprocessed = 0

ExpectedCount(i) == IF IsArchive THEN Len(InProcessPages(i)) ELSE Len(PdfPages(i + 1))

\* C7 (amended): in the CBZ and CBR paths the context is populated only after every page
\* has been processed; in the PDF path addOriginalPage(i) is called right after page i is
\* processed, while the pages after i are still unprocessed; in every path the calls are
\* made once per source page, in ascending processing index, with that page's output count.
C7_MappingInIndexOrder ==
  /\ Len(mappingCtx) = Len(hist.mapLog)
  /\ Len(mappingCtx) <= input.totalPages
  /\ (mainPc = "finalized" => Len(mappingCtx) = input.totalPages)
  /\ \A k \in DOMAIN mappingCtx :
       /\ hist.mapLog[k].index = k - 1
       /\ mappingCtx[k] = <<OriginalPage(k - 1), ExpectedCount(k - 1)>>
       /\ hist.mapLog[k].unprocessed = IF IsArchive THEN 0 ELSE input.totalPages - k

C7_Witness ==
  /\ mainPc = "finalized" /\ IsArchive /\ input.workers >= 2
  /\ hist.outOfOrder
  /\ Len(mappingCtx) = MaxPages
  /\ \E k \in DOMAIN mappingCtx : mappingCtx[k][2] = 0

\* C8: destroy rejects every job that is queued or in flight, leaves the queue empty and no
\* slot holding a job, and terminates every worker.
C8_DestroyRejectsEverything ==
  [][ (~poolObj.isDestroyed /\ poolObj'.isDestroyed) =>
        /\ poolObj'.queue = <<>>
        /\ \A l \in DOMAIN poolObj.slots :
             poolObj'.slots[l].currentJob = NoJob /\ poolObj'.terminated[l] = 1
        /\ \A j \in Range(DestroyRejects(poolObj)) :
             poolObj'.status[j] = "rejected" /\ poolObj'.settles[j] = poolObj.settles[j] + 1
        /\ \A j \in DOMAIN poolObj.status : poolObj'.status[j] # "pending" ]_vars

C8_Witness ==
  /\ lastOp.op = "destroy" /\ ~lastOp.wasDestroyed
  /\ lastOp.inFlight # <<>> /\ lastOp.queued # <<>>
  /\ poolObj.isDestroyed

\* C9: destroy is idempotent: a call on a destroyed pool changes no pool state, settles no
\* job and terminates no worker again.
C9_DestroyIdempotent ==
  [][ (destroyCalls' = destroyCalls + 1 /\ poolObj.isDestroyed) =>
        (poolObj' = poolObj /\ microtasks' = microtasks) ]_vars

C9_Witness ==
  /\ lastOp.op = "destroy" /\ lastOp.wasDestroyed
  /\ destroyCalls = 2
  /\ AnyRejected

\* C10: a completion message on a slot with no current job, or whose jobId differs from the
\* current job's id, settles no job, leaves busy and currentJob unchanged and dispatches
\* nothing.
C10_StaleMessageIgnored ==
  [][ ( /\ lastOp'.op = "message"
        /\ lastOp'.jobId \in poolObj.posted[lastOp'.slot]
        /\ lastOp'.jobId \notin poolObj'.posted[lastOp'.slot]
        /\ poolObj.slots[lastOp'.slot].currentJob # lastOp'.jobId ) =>
        /\ poolObj' = [poolObj EXCEPT !.posted[lastOp'.slot] = @ \ {lastOp'.jobId}]
        /\ microtasks' = microtasks ]_vars

C10_Witness ==
  /\ lastOp.op = "message"
  /\ lastOp.current # NoJob /\ lastOp.current # lastOp.jobId
  /\ poolObj.slots[lastOp.slot] = [busy |-> TRUE, currentJob |-> lastOp.current]
  /\ poolObj.queue # <<>>

\* the jobs a step hands to a worker: current job of a slot after the step, not before
Dispatched(p, q) ==
  {q.slots[l].currentJob : l \in {m \in DOMAIN q.slots : q.slots[m].currentJob # NoJob
                                                        /\ q.slots[m].currentJob # p.slots[m].currentJob}}

\* C11: the job queue is FIFO: job ids are given in submission order; the queue of a pool
\* that is not destroyed holds them in ascending order, and when a step dispatches a job
\* every job submitted before it has been dispatched already or is dispatched by the same
\* step (none of them is still in the queue).
C11_QueueIsFifo ==
  [][ ~poolObj'.isDestroyed =>
        /\ \A a, b \in DOMAIN poolObj'.queue : a < b => poolObj'.queue[a] < poolObj'.queue[b]
        /\ \A j \in Dispatched(poolObj, poolObj') :
             \A i \in Range(poolObj'.queue) : j < i ]_vars

C11_Witness ==
  /\ lastOp.op = "message" /\ lastOp.current = lastOp.jobId
  /\ ~poolObj.isDestroyed
  /\ poolObj.slots[lastOp.slot].currentJob > lastOp.jobId
  /\ poolObj.queue # <<>>
  /\ \A i \in Range(poolObj.queue) : poolObj.slots[lastOp.slot].currentJob < i

\* C12: in every conversion path, when the metadata resolves a cover page, the first
\* processed page is that original page and it yields exactly one output page, whatever
\* the global splitMode is (a page that fails to decode yields none and is left out).
C12_CoverFirstUnsplit ==
  input.coverPage # 0 =>
    /\ (IsArchive /\ 0 \in DOMAIN pageResultsByIndex /\ KindAt(0) # "bad") =>
         (OriginalPage(0) = input.coverPage /\ Len(pageResultsByIndex[0]) = 1)
    /\ (~IsArchive /\ Len(mappingCtx) >= 1) =>
         mappingCtx[1] = <<input.coverPage, 1>>

\* C13 (as claimed): a decoded page yields 1 output page when orientation is portrait, when
\* splitMode is nosplit or when the cropped width is not smaller than the cropped height,
\* 2 when it is split in half, 3 when it is split with overlap, and 1 for any other
\* splitMode value.
C13_OutputCountOtherIsOne ==
  call.fn = "processLoadedImage" =>
    Len(call.names) =
      IF call.orientation = "portrait" THEN 1
      ELSE IF call.splitMode = "nosplit" THEN 1
      ELSE IF ~(call.width < call.height) THEN 1
      ELSE IF call.splitMode = "split" THEN 2
      ELSE IF call.splitMode = "overlap" THEN 3
      ELSE 1

\* C13 (amended): as above, but any splitMode value other than nosplit and overlap splits
\* the page in half: 2 output pages when the cropped width is smaller than the height.
C13_OutputCount ==
  call.fn = "processLoadedImage" =>
    Len(call.names) =
      IF call.orientation = "portrait" THEN 1
      ELSE IF call.splitMode = "nosplit" THEN 1
      ELSE IF ~(call.width < call.height) THEN 1
      ELSE IF call.splitMode = "overlap" THEN 3
      ELSE 2

C13_Witness ==
  /\ call.fn = "processLoadedImage"
  /\ call.orientation = "landscape" /\ call.splitMode = "other"
  /\ call.width < call.height
  /\ Len(call.names) = 2

\* name is `${prefix}_${kind}_${tail}.png` with kind 0, 2 or 3 and, for kinds 2 and 3, a
\* tail of one segment letter
NameHasPrefix(name, prefix) ==
  /\ Len(name) > Len(prefix) + 3 + Len(ExtPng)
  /\ SubSeq(name, 1, Len(prefix)) = prefix
  /\ name[Len(prefix) + 1] = ChUnderscore
  /\ name[Len(prefix) + 2] \in {ChDigit(0), ChDigit(2), ChDigit(3)}
  /\ name[Len(prefix) + 3] = ChUnderscore
  /\ SubSeq(name, Len(name) - Len(ExtPng) + 1, Len(name)) = ExtPng
  /\ (name[Len(prefix) + 2] # ChDigit(0) =>
        /\ Len(name) = Len(prefix) + 4 + Len(ExtPng)
        /\ \E k \in 0..25 : name[Len(prefix) + 4] = ChLetter(k))

\* the output pages of the source page at processing index i, once it has been processed
OutputNamesOf(i) ==
  IF IsArchive
  THEN (IF i \in DOMAIN pageResultsByIndex THEN Range(pageResultsByIndex[i]) ELSE {})
  ELSE (IF i < Len(hist.pdfResults) THEN Range(hist.pdfResults[i + 1]) ELSE {})

\* C14 (as claimed): every output page's name starts with the 4-digit zero-padded original
\* page number of its source page (its position in the source before any cover
\* reordering), followed by the split kind and, for kinds 2 and 3, the segment letter.
C14_NameHasOriginalPage ==
  \A i \in AllPages : \A name \in OutputNamesOf(i) :
    NameHasPrefix(name, PadStart(Digits(OriginalPage(i)), 4))

\* C14 (amended): the name starts with the zero-padded position of the source page in the
\* processing order (index + 1), which is its original page number when no cover has been
\* moved to the front and in the PDF path.
C14_NameHasProcessingPosition ==
  \A i \in AllPages : \A name \in OutputNamesOf(i) :
    /\ NameHasPrefix(name, PadStart(Digits(i + 1), 4))
    /\ ((input.fileType = "pdf" \/ input.coverPage <= 1) => OriginalPage(i) = i + 1)

C14_Witness ==
  /\ mainPc = "finalized" /\ IsArchive /\ input.coverPage = MaxPages
  /\ \A i \in AllPages : OutputNamesOf(i) # {} /\ OriginalPage(i) # i + 1

\* C15: for every batch, sorting the generated output names yields exactly the generation
\* order: ascending source page number and, within a source page, ascending segment letter.
C15_SortKeepsGenerationOrder ==
  call.fn = "sort" => call.sorted = call.generated

\* C16: the container written by buildXtc has indexOffset = 48, dataOffset =
\* indexOffset + pageCount * 16, a header pageCount equal to the number of index entries
\* and of input pages, and a total length of dataOffset plus the sum of the blob sizes.
C16_ContainerLayout ==
  call.fn = "buildXtc" =>
    /\ call.xtc.indexOffset = 48
    /\ call.xtc.dataOffset = call.xtc.indexOffset + call.xtc.pageCount * 16
    /\ call.xtc.pageCount = Len(call.xtc.entries)
    /\ call.xtc.pageCount = Len(call.blobs)
    /\ call.xtc.byteLength = call.xtc.dataOffset + SumTo(call.blobs, Len(call.blobs))

C16_Witness ==
  /\ call.fn = "buildXtc"
  /\ Len(call.blobs) = MaxBlobs
  /\ call.xtc.entries[MaxBlobs].offset + call.xtc.entries[MaxBlobs].size = call.xtc.byteLength

\* C17: every index entry stores its page's offset relative to dataOffset (0 for the first
\* page, previous offset plus previous size for each next page), so that
\* offset + size <= totalBufferLength - dataOffset.
C17_RelativeOffsets ==
  call.fn = "buildXtc" =>
    \A i \in DOMAIN call.xtc.entries :
      /\ call.xtc.entries[i].offset =
           IF i = 1 THEN 0 ELSE call.xtc.entries[i - 1].offset + call.xtc.entries[i - 1].size
      /\ call.xtc.entries[i].offset + call.xtc.entries[i].size
           <= call.xtc.byteLength - call.xtc.dataOffset

\* bit k (0 = least significant) of a byte
BitOf(byte, k) == (byte \div (2 ^ k)) % 2

AxisCropOk(dimension, start, extent) ==
  /\ start >= 0
  /\ start <= (dimension - 1) \div 2
  /\ dimension - (start + extent) = start
  /\ extent >= 1
  /\ start + extent <= dimension

\* C19: for every source width and height >= 1 and every margin option, getAxisCropRect
\* removes on each side of an axis at most floor((dimension-1)/2) pixels, the same amount
\* on both sides, and returns a rectangle of at least 1x1 that lies inside the source.
C19_CropRectInsideSource ==
  call.fn = "getAxisCropRect" =>
    /\ AxisCropOk(call.sourceWidth, call.rect.x, call.rect.width)
    /\ AxisCropOk(call.sourceHeight, call.rect.y, call.rect.height)

\* a 20% margin (from an option above the clamp) that crops one axis, and a non-finite
\* margin that leaves the other axis whole
C19_Witness ==
  /\ call.fn = "getAxisCropRect"
  /\ call.sourceWidth = MaxCropSide
  /\ call.options.horizontalMargin = [finite |-> TRUE, tenths |-> 250]
  /\ ~call.options.verticalMargin.finite
  /\ call.rect.x = 2
  /\ call.rect.width = MaxCropSide - 4
  /\ call.rect.y = 0
  /\ call.rect.height = call.sourceHeight

\* C20: in a half split of a cropped image of height h, the top band covers rows
\* 0..floor(h/2)-1 and the bottom band covers rows floor(h/2)..h-1, so that the two bands
\* cover every row and, when h is odd, the extra row belongs to the bottom band.
C20_BandsCoverEveryRow ==
  (call.fn = "processLoadedImage" /\ Len(call.bands) = 2) =>
    LET rows(band) == band.y..(band.y + band.h - 1)
    IN /\ rows(call.bands[1]) = 0..((call.height \div 2) - 1)
       /\ rows(call.bands[2]) = (call.height \div 2)..(call.height - 1)
       /\ rows(call.bands[1]) \cup rows(call.bands[2]) = 0..(call.height - 1)

\* the jobs submitted to the pool
Jobs == DOMAIN poolObj.status

\* the places a job is held in: positions of the queue and lanes whose current job it is
QueuePlaces(j) == {k \in DOMAIN poolObj.queue : poolObj.queue[k] = j}
LanePlaces(j) == {l \in DOMAIN poolObj.slots : poolObj.slots[l].currentJob = j}

\* C26: the pool is work-conserving: after any processPage, completion message or worker
\* error has been handled on a pool that is not destroyed, the queue never holds a job
\* while some lane is idle.
C26_WorkConserving ==
  ~poolObj.isDestroyed => (poolObj.queue = <<>> \/ IdleSlots(poolObj) = {})

\* a worker error has freed a lane and the pump has refilled it from the queue
C26_Witness ==
  /\ lastOp.op = "error"
  /\ ~poolObj.isDestroyed
  /\ poolObj.slots[lastOp.slot].busy
  /\ poolObj.status[poolObj.slots[lastOp.slot].currentJob] = "pending"
  /\ \E j \in Jobs : poolObj.status[j] = "rejected"

\* C27: the pool settles each submitted job at most once: over any sequence of completion
\* messages, late or duplicate messages, worker errors and destroy calls, resolve or reject
\* is invoked at most one time in total for a given job.
C27_SettledAtMostOnce ==
  \A j \in Jobs : poolObj.settles[j] <= 1

\* a message for a job that was settled before, by an error or by an earlier message
C27_Witness ==
  /\ lastOp.op = "message"
  /\ lastOp.current # lastOp.jobId
  /\ poolObj.settles[lastOp.jobId] = 1
  /\ poolObj.status[lastOp.jobId] = "resolved"
  /\ \E j \in Jobs : poolObj.status[j] = "rejected"

\* C28: while the pool is not destroyed, every unsettled job is in exactly one place, either
\* in the queue or as the current job of exactly one lane; a lane is busy iff it has a
\* current job; and the number of jobs in flight never exceeds the pool size.
C28_JobInOnePlace ==
  ~poolObj.isDestroyed =>
    /\ \A j \in Jobs :
         IF poolObj.status[j] = "pending"
           THEN Cardinality(QueuePlaces(j)) + Cardinality(LanePlaces(j)) = 1
           ELSE QueuePlaces(j) = {} /\ LanePlaces(j) = {}
    /\ \A l \in DOMAIN poolObj.slots :
         poolObj.slots[l].busy <=> poolObj.slots[l].currentJob # NoJob
    /\ Len(CurrentJobs(poolObj)) <= PoolSize(poolObj)

\* every lane holds a job and another job waits in the queue
C28_Witness ==
  /\ ~poolObj.isDestroyed
  /\ PoolSize(poolObj) = MaxPool
  /\ Len(CurrentJobs(poolObj)) = MaxPool
  /\ poolObj.queue # <<>>
  /\ \A j \in Jobs : poolObj.status[j] = "pending"

\* C29: processPage on a destroyed pool returns a rejected promise and changes nothing: the
\* job is not enqueued, no job id is consumed, and no message is posted to any worker
\* after destroy.
C29_ProcessPageAfterDestroy ==
  [][poolObj.isDestroyed =>
       /\ poolObj'.posted = poolObj.posted
       /\ poolObj'.queue = <<>>
       /\ lastOp'.op = "processPage" => (lastOp'.rejected /\ poolObj' = poolObj)]_vars

C29_Witness ==
  /\ lastOp.op = "processPage"
  /\ lastOp.rejected
  /\ poolObj.isDestroyed
  /\ poolObj.nextJobId > 1

\* processArchiveSourcePages has returned or thrown
ArchiveCallOver == input.fileType # "pdf" /\ mainPc \in {"returned", "threw", "finalized"}

\* every worker of the pool has been terminated and the pool is marked destroyed
PoolGone ==
  /\ poolObj.isDestroyed
  /\ \A l \in DOMAIN poolObj.slots : poolObj.terminated[l] >= 1

\* C30: whenever processArchiveSourcePages creates a worker pool, that pool has been
\* destroyed (every worker terminated) by the time the function returns or throws, on the
\* normal path as well as after a fallback or a rejected blob read.
C30_PoolDestroyedAtExit ==
  (ArchiveCallOver /\ PoolSize(poolObj) > 0) => PoolGone

\* the function throws after a rejected blob read while the pool is still in use, and the
\* finally block destroys it
C30_Witness ==
  /\ ArchiveCallOver
  /\ mainPc = "threw"
  /\ lastOp.op = "join"
  /\ PoolSize(poolObj) = MaxPool
  /\ pool = "pool"
  /\ ~workerDisabled
  /\ PoolGone

\* C22: a source page whose image cannot be decoded does not fail the conversion: it
\* contributes zero output pages, is recorded with an output count of 0 in the page mapping,
\* and every other page of the batch is still processed and appears in the result.
C22_DecodeFailureNotFatal ==
  IsArchive =>
    /\ mainPc = "threw" => BlobFailed
    /\ mainPc \in {"returned", "finalized"} =>
         /\ Len(mappingCtx) = input.totalPages
         /\ \A i \in AllPages :
              /\ mappingCtx[i + 1][1] = OriginalPage(i)
              /\ IF KindAt(i) = "bad"
                   THEN /\ mappingCtx[i + 1][2] = 0
                        /\ pageResultsByIndex[i] = <<>>
                        /\ \A name \in Range(encodedPages) :
                             ~NameHasPrefix(name, PadStart(Digits(PageNum(i)), 4))
                   ELSE /\ mappingCtx[i + 1][2] = Len(WorkerPages(i))
                        /\ mappingCtx[i + 1][2] > 0
                        /\ Range(WorkerPages(i)) \subseteq Range(encodedPages)

\* a conversion that started on workers has finished with an undecodable page between
\* two decodable ones
C22_Witness ==
  /\ IsArchive
  /\ mainPc = "finalized"
  /\ input.workers > 0
  /\ input.totalPages = 3
  /\ KindAt(0) # "bad" /\ KindAt(1) = "bad" /\ KindAt(2) # "bad"
  /\ mappingCtx[2][2] = 0
  /\ Len(xtcPages) >= 2

\* C21: in a batch of selected files, every file yields exactly one result entry, in file
\* order: a file whose conversion throws (for example because it contains no recognised
\* image) yields an entry with an error field, and the files after it are still converted.
C21_OneResultPerFile ==
  batch.pc \in {"converting", "complete"} =>
    /\ Len(batch.results) = batch.i
    /\ batch.pc = "complete" => Len(batch.results) = Len(batch.files)
    /\ \A k \in DOMAIN batch.results :
         /\ batch.results[k].file = k - 1
         /\ batch.results[k].error <=> ConvertThrows(batch.files[k])

\* a finished batch whose first file has no recognised image and whose last file converted
C21_Witness ==
  /\ batch.pc = "complete"
  /\ Len(batch.files) = MaxFiles
  /\ batch.files[1] = "noImages"
  /\ batch.results[1].error
  /\ ~batch.results[MaxFiles].error

\* C23: under any interleaving of the slot loops and for any total page count, the list of
\* retained previews (sampledPreviews) never holds more than MAX_STORED_PREVIEWS = 12 entries.
C23_PreviewsCapped ==
  Len(sampledPreviews) <= 12

\* the list is full while two lanes still hold a preview each that passed the length tests
\* of lines 249 and 267
C23_Witness ==
  /\ Len(sampledPreviews) = MAX_STORED_PREVIEWS
  /\ mainPc = "returned"
  /\ input.workers = MaxPool
  /\ completed = input.totalPages
  /\ input.totalPages \notin Range(sampledPreviews)

\* C24: when showProgressPreview is on and every page decodes, the retained previews of a
\* finished conversion always include the preview of the first source page and the preview
\* of the last source page, for every total page count and every completion order.
C24_FirstAndLastRetained ==
  (mainPc = "returned" /\ input.showProgressPreview /\ input.allDecode) =>
    /\ 1 \in Range(sampledPreviews)
    /\ input.totalPages \in Range(sampledPreviews)

\* C25: every output bitmap has exactly the target width and height selected by
\* options.device, whether it was produced by a worker lane or by the in-process lane; the
\* two lanes size a page identically for the same options.
C25_OutputHasDeviceSize ==
  call.fn = "outputDimensions" =>
    /\ call.worker = GetTargetDimensions(call.options.device)
    /\ call.inProcess = GetTargetDimensions(call.options.device)
    /\ call.worker = call.inProcess


====
